---- MODULE Spec2Model ----
(***************************************************************************)
(* Model of the company-lookup page (the first file under src/pages):     *)
(* the name normalizer, the two search adapters with their ranking, the    *)
(* resolution pipeline, the detail fetcher and the batch loop.             *)
(*                                                                         *)
(* A Python str is a sequence of one-character strings.  A value whose     *)
(* Python type is not fixed (anything decoded from JSON, None) is a tagged *)
(* record [k |-> kind, v |-> payload].  A character outside ASCII is named *)
(* by its pinyin ("you" "xian" "gong" "si" is the suffix of a limited       *)
(* company) or by its code point ("U+3000", "U+FF08", "U+FF09").           *)
(***************************************************************************)
EXTENDS Integers, Sequences, FiniteSets, TLC

\* ------------------------------------------------------------------ bounds

\* Rows of the uploaded sheet.
MaxRows == 2
\* Pieces a normalizer input is put together from.
MaxParts == 3
\* Candidates in one search response of the ranking specification.
MaxCands == 3

\* ---------------------------------------------------------- Python values

PyNone == [k |-> "none"]
PyStr(s) == [k |-> "str", v |-> s]
PyInt(n) == [k |-> "int", v |-> n]
PyList(l) == [k |-> "list", v |-> l]
PyDict(d) == [k |-> "dict", v |-> d]

IsNone(x) == x.k = "none"
IsStr(x) == x.k = "str"
IsInt(x) == x.k = "int"
IsList(x) == x.k = "list"
IsDict(x) == x.k = "dict"

\* A truth test that only None fails.
TruthyNotNone(x) == ~IsNone(x)

\* bool(x)
Truthy(x) ==
    CASE IsNone(x) -> FALSE
      [] IsStr(x) -> x.v # <<>>
      [] IsInt(x) -> x.v # 0
      [] IsList(x) -> x.v # <<>>
      [] IsDict(x) -> DOMAIN x.v # {}

\* ------------------------------------------------------------ str methods

\* " " and the ideographic space U+3000
Whitespace == {" ", "U+3000"}

RECURSIVE LStrip(_)
LStrip(s) == IF s # <<>> /\ Head(s) \in Whitespace THEN LStrip(Tail(s)) ELSE s

RECURSIVE RStrip(_)
RStrip(s) ==
    IF s # <<>> /\ s[Len(s)] \in Whitespace
    THEN RStrip(SubSeq(s, 1, Len(s) - 1))
    ELSE s

\* s.strip()
Strip(s) == RStrip(LStrip(s))

\* s.replace(a, b) for one-character a and b
Replace(s, a, b) == [n \in 1..Len(s) |-> IF s[n] = a THEN b ELSE s[n]]

\* s.replace(a, "") for a one-character a
RECURSIVE Remove(_, _)
Remove(s, a) ==
    IF s = <<>> THEN <<>>
    ELSE IF Head(s) = a THEN Remove(Tail(s), a)
    ELSE <<Head(s)>> \o Remove(Tail(s), a)

\* s.endswith(suffix)
EndsWith(s, suffix) ==
    /\ Len(suffix) <= Len(s)
    /\ SubSeq(s, Len(s) - Len(suffix) + 1, Len(s)) = suffix

\* sub in s
Contains(s, sub) ==
    \E n \in 0..(Len(s) - Len(sub)) : SubSeq(s, n + 1, n + Len(sub)) = sub

Digits == {"0", "1", "2", "3", "4", "5", "6", "7", "8", "9"}

\* s.isdigit()
IsDigit(s) == s # <<>> /\ \A n \in 1..Len(s) : s[n] \in Digits

\* -------------------------------------------------------- name normalizer

\* gu fen4 you xian gong si (company limited by shares), you xian gong si
\* (limited company), fen1 gong si (branch), she tuan fa ren, cai tuan fa ren
\* (the two kinds of juridical person), you xian he huo (limited partnership)
suffixes ==
    << <<"gu", "fen4", "you", "xian", "gong", "si">>,
       <<"you", "xian", "gong", "si">>,
       <<"fen1", "gong", "si">>,
       <<"she", "tuan", "fa", "ren">>,
       <<"cai", "tuan", "fa", "ren">>,
       <<"you", "xian", "he", "huo">> >>

\* The loop of clean_company_name from suffix n on: the first suffix the name
\* ends with is cut off and the loop breaks.
RECURSIVE StripSuffixFrom(_, _)
StripSuffixFrom(name, n) ==
    IF n > Len(suffixes) THEN name
    ELSE IF EndsWith(name, suffixes[n])
         THEN SubSeq(name, 1, Len(name) - Len(suffixes[n]))
         ELSE StripSuffixFrom(name, n + 1)

\* A normalizer that forgets the strip() of its input.
clean_company_name_nostrip(name) ==
    StripSuffixFrom(Replace(Replace(name, "U+FF08", "("), "U+FF09", ")"), 1)

clean_company_name(name) ==
    StripSuffixFrom(Replace(Replace(Strip(name), "U+FF08", "("), "U+FF09", ")"), 1)

\* ------------------------------------------------------ upstream replies

\* What requests.get gives: a reply with a status and a body, or an exception
\* (timeout, connection error).  The body is the value res.json() decodes, or
\* BadJson when res.json() raises.
BadJson == [k |-> "badjson"]
HttpReply(status, json) == [k |-> "http", status |-> status, json |-> json]
NetError == [k |-> "exc", status |-> 0, json |-> BadJson]

\* item[key] raises unless item is a mapping that has the key
HasKey(item, key) == IsDict(item) /\ key \in DOMAIN item.v

\* str(x)
DigitChar(d) == <<"0", "1", "2", "3", "4", "5", "6", "7", "8", "9">>[d + 1]

\* str(n) for an int n >= 0
RECURSIVE Decimal(_)
Decimal(n) == IF n < 10 THEN <<DigitChar(n)>> ELSE Decimal(n \div 10) \o <<DigitChar(n % 10)>>

\* str(x); the text of a list or a mapping is not spelled out
StrOf(x) ==
    CASE IsStr(x) -> x.v
      [] IsInt(x) -> Decimal(x.v)
      [] IsNone(x) -> <<"N", "o", "n", "e">>
      [] OTHER -> <<"repr">>

\* Whether "name in x" and "len(x)" evaluate without raising: x is a str or
\* a list (a mapping as a name value is not among the modelled shapes).
Sized(x) == IsStr(x) \/ IsList(x)

\* name in x
PyIn(name, x) ==
    IF IsStr(x) THEN Contains(x.v, name)
    ELSE \E n \in 1..Len(x.v) : x.v[n] = PyStr(name)

\* An unstable sort: among items of equal key the later one comes first.
RECURSIVE InsertByLenUnstable(_, _, _)
InsertByLenUnstable(sorted, item, key) ==
    IF sorted = <<>> THEN <<item>>
    ELSE IF Len(item.v[key].v) <= Len(Head(sorted).v[key].v)
         THEN <<item>> \o sorted
         ELSE <<Head(sorted)>> \o InsertByLenUnstable(Tail(sorted), item, key)

RECURSIVE SortByLenUnstable(_, _)
SortByLenUnstable(items, key) ==
    IF items = <<>> THEN <<>>
    ELSE InsertByLenUnstable(SortByLenUnstable(SubSeq(items, 1, Len(items) - 1), key),
                             items[Len(items)], key)

\* list.sort(key=lambda x: len(x[key])): Python's sort is stable, so an item
\* goes behind every item already placed whose key is not larger.
RECURSIVE InsertByLen(_, _, _)
InsertByLen(sorted, item, key) ==
    IF sorted = <<>> THEN <<item>>
    ELSE IF Len(item.v[key].v) < Len(Head(sorted).v[key].v)
         THEN <<item>> \o sorted
         ELSE <<Head(sorted)>> \o InsertByLen(Tail(sorted), item, key)

RECURSIVE SortByLen(_, _)
SortByLen(items, key) ==
    IF items = <<>> THEN <<>>
    ELSE InsertByLen(SortByLen(SubSeq(items, 1, Len(items) - 1), key),
                     items[Len(items)], key)

\* The outcome of a piece of a try block: it returned v, it raised, or it ran
\* to its end ("next").
Ret(v) == [r |-> "ret", v |-> v]
Raised == [r |-> "raise", v |-> PyNone]
Fell == [r |-> "next", v |-> PyNone]

\* for item in data: if item[nameKey] == name: return str(item[idKey])
RECURSIVE ExactLoop(_, _, _, _, _)
ExactLoop(data, name, nameKey, idKey, n) ==
    IF n > Len(data) THEN Fell
    ELSE IF ~HasKey(data[n], nameKey) THEN Raised
    ELSE IF data[n].v[nameKey] = PyStr(name)
         THEN IF HasKey(data[n], idKey)
              THEN Ret(PyStr(StrOf(data[n].v[idKey])))
              ELSE Raised
         ELSE ExactLoop(data, name, nameKey, idKey, n + 1)

\* The items with name in item[nameKey], in list order; Raised when an item
\* has no such key or a value that "in" rejects.
RECURSIVE ContainLoop(_, _, _, _)
ContainLoop(data, name, nameKey, n) ==
    IF n > Len(data) THEN Ret(<<>>)
    ELSE IF ~HasKey(data[n], nameKey) \/ ~Sized(data[n].v[nameKey]) THEN Raised
    ELSE LET rest == ContainLoop(data, name, nameKey, n + 1)
         IN IF rest.r = "raise" THEN Raised
            ELSE IF PyIn(name, data[n].v[nameKey])
                 THEN Ret(<<data[n]>> \o rest.v)
                 ELSE rest

\* return str(items[0][idKey])
FirstId(items, idKey) ==
    IF HasKey(items[1], idKey)
    THEN Ret(PyStr(StrOf(items[1].v[idKey])))
    ELSE Raised

\* The ranking of search_moea_keyword over a non-empty list.
RankMoea(data, name) ==
    LET exact == ExactLoop(data, name, "Company_Name", "Business_Accounting_NO", 1)
        cands == ContainLoop(data, name, "Company_Name", 1)
    IN IF exact.r # "next" THEN exact
       ELSE IF cands.r = "raise" THEN Raised
       ELSE IF cands.v # <<>>
            THEN FirstId(SortByLen(cands.v, "Company_Name"), "Business_Accounting_NO")
            ELSE FirstId(data, "Business_Accounting_NO")

\* search_moea_keyword(name), given the reply to its request
search_moea_keyword(name, res) ==
    IF res.k = "exc" THEN PyNone
    ELSE IF res.status # 200 THEN PyNone
    ELSE IF res.json = BadJson THEN PyNone
    ELSE IF Truthy(res.json) /\ IsList(res.json) /\ Len(res.json.v) > 0
         THEN LET out == RankMoea(res.json.v, name)
              IN IF out.r = "ret" THEN out.v ELSE PyNone
         ELSE PyNone

\* "data" in data and len(data["data"]) > 0, for a decoded body that is a
\* mapping; any other body makes one of the two raise or be false.
G0vHasData(json) ==
    /\ HasKey(json, "data")
    /\ Sized(json.v["data"])
    /\ Len(json.v["data"].v) > 0

\* The ranking of search_g0v_fuzzy over a non-empty list.
RankG0v(candidates, name) ==
    LET exact == ExactLoop(candidates, name, "name", "id", 1)
        matches == ContainLoop(candidates, name, "name", 1)
    IN IF exact.r # "next" THEN exact
       ELSE IF matches.r = "raise" THEN Raised
       ELSE IF matches.v # <<>>
            THEN FirstId(SortByLen(matches.v, "name"), "id")
            ELSE FirstId(candidates, "id")

\* search_g0v_fuzzy(name), given the reply to its request
search_g0v_fuzzy(name, res) ==
    IF res.k = "exc" THEN PyNone
    ELSE IF res.status # 200 THEN PyNone
    ELSE IF res.json = BadJson THEN PyNone
    ELSE IF G0vHasData(res.json) /\ IsList(res.json.v["data"])
         THEN LET out == RankG0v(res.json.v["data"].v, name)
              IN IF out.r = "ret" THEN out.v ELSE PyNone
         ELSE PyNone

\* --------------------------------------------------------- detail fetcher

\* The keys of the mirror's detail record and of the output sheet are named
\* in English here: company_name is the company-name key, setup_date and
\* last_change_date, suspend_date, resume_date the four date keys, directors
\* the list of directors and supervisors, tax_id the registration number.

\* d.get(key, default)
Get(d, key, default) == IF key \in DOMAIN d.v THEN d.v[key] ELSE default

\* Whether int(x) evaluates without raising: x is an int or a str of digits.
IntOk(x) == IsInt(x) \/ (IsStr(x) /\ IsDigit(x.v))

RECURSIVE ParseDecimal(_)
ParseDecimal(s) ==
    IF s = <<>> THEN 0
    ELSE 10 * ParseDecimal(SubSeq(s, 1, Len(s) - 1))
         + (CHOOSE d \in 0..9 : DigitChar(d) = s[Len(s)])

\* int(x)
IntOf(x) == IF IsInt(x) THEN x.v ELSE ParseDecimal(x.v)

\* f"{n:0{w}d}" for n >= 0
RECURSIVE ZeroPad(_, _)
ZeroPad(digits, w) == IF Len(digits) >= w THEN digits ELSE ZeroPad(<<"0">> \o digits, w)

\* format_date_roc(date_obj); "nian", "yue", "ri" are the year, month and day
\* characters of the template.
format_date_roc(date_obj) ==
    IF IsDict(date_obj)
    THEN LET yv == Get(date_obj, "year", PyInt(0))
             mv == Get(date_obj, "month", PyInt(0))
             dv == Get(date_obj, "day", PyInt(0))
         IN IF IntOk(yv) /\ IntOk(mv) /\ IntOk(dv)
            THEN LET y == IF IntOf(yv) > 1911 THEN IntOf(yv) - 1911 ELSE IntOf(yv)
                 IN ZeroPad(Decimal(y), 3) \o <<"nian">>
                    \o ZeroPad(Decimal(IntOf(mv)), 2) \o <<"yue">>
                    \o ZeroPad(Decimal(IntOf(dv)), 2) \o <<"ri">>
            ELSE <<>>
    ELSE StrOf(date_obj)

DateColumns == {"setup_date", "last_change_date", "suspend_date", "resume_date"}

NoDetail == <<PyNone, PyNone>>

\* The first try block of fetch_company_data, given the mirror's reply:
\* Ret(<<c_data, directors>>) when it returns, Fell when control goes on to
\* the second block (the condition was false or something raised).
FetchFromG0v(res) ==
    IF res.k = "exc" \/ res.status # 200 \/ res.json = BadJson THEN Fell
    ELSE IF ~HasKey(res.json, "data") THEN Fell
    ELSE IF ~Truthy(res.json.v["data"]) THEN Fell
    ELSE LET c0 == res.json.v["data"]
         IN IF ~IsDict(c0) THEN Fell
            ELSE IF HasKey(c0, "company_name") /\ IsList(c0.v["company_name"])
                    /\ c0.v["company_name"].v = <<>>
            THEN Fell
            ELSE LET c_data == PyDict([key \in DOMAIN c0.v |->
                        IF key = "company_name" /\ IsList(c0.v[key])
                        THEN PyStr(StrOf(c0.v[key].v[1]))
                        ELSE IF key \in DateColumns
                        THEN PyStr(format_date_roc(c0.v[key]))
                        ELSE c0.v[key]])
                 IN Ret(<<c_data, Get(c_data, "directors", PyList(<<>>))>>)

\* The second try block of fetch_company_data and its last line, given the
\* official registry's reply.
FetchFromMoea(res) ==
    IF res.k = "exc" \/ res.status # 200 \/ res.json = BadJson THEN NoDetail
    ELSE IF Truthy(res.json) /\ IsList(res.json) /\ Len(res.json.v) > 0
    THEN LET item == res.json.v[1]
         IN IF ~IsDict(item) THEN NoDetail
            ELSE << PyDict([tax_id |-> Get(item, "Business_Accounting_NO", PyNone),
                            company_name |-> Get(item, "Company_Name", PyNone),
                            representative |-> Get(item, "Responsible_Name", PyNone),
                            address |-> Get(item, "Company_Location", PyNone),
                            paid_in_capital |-> Get(item, "Paid_In_Capital_Amount", PyNone),
                            setup_date |-> Get(item, "Company_Setup_Date", PyNone)]),
                    PyList(<<>>) >>
    ELSE NoDetail

\* ------------------------------------------------------------------ state

VARIABLES
    n_in,       \* normalizer specification: the input string
    n_once,     \* clean_company_name(n_in)
    n_twice,    \* clean_company_name(n_once)
    n_pc        \* how often the normalizer has been applied

VARIABLES
    r_target,   \* ranking specification: the name searched for
    r_cands,    \* the candidates upstream answers with, <<identifier, name>> each
    r_moea,     \* what search_moea_keyword returned, Pending before the call
    r_g0v       \* what search_g0v_fuzzy returned, Pending before the call

VARIABLES
    total,      \* len(df_input)
    df_input,   \* the rows of the sheet the loop has read so far
    i,          \* the index of the row in work (rows before it are finished)
    pc,         \* where the batch is
    raw_id,     \* the batch loop's locals
    raw_name,
    tid,
    method,
    found,
    c_data,
    dirs,
    smart_name, \* search_id_smart's raw_name
    core_name,  \* search_id_smart's core_name
    all_base,   \* the output rows
    all_dir,    \* the director records
    calls,      \* the sleeps and upstream requests made for the row in work
    stage,      \* the stage that resolved the row in work (0: none)
    stages      \* per output row, the stage that resolved it

VARIABLES
    d_in,       \* date specification: the value of a date column
    d_out,      \* format_date_roc(d_in)
    d_pc        \* 1 once the value is converted

nvars == <<n_in, n_once, n_twice, n_pc>>
dvars == <<d_in, d_out, d_pc>>
rvars == <<r_target, r_cands, r_moea, r_g0v>>
row_locals == <<raw_id, raw_name, tid, method, found, c_data, dirs, smart_name, core_name>>
bvars == <<total, df_input, i, pc, row_locals, all_base, all_dir, calls, stage, stages>>

vars == <<nvars, rvars, bvars, dvars>>

Pending == [k |-> "pending"]

DateIdle == d_in = PyNone /\ d_out = <<>> /\ d_pc = 0
NormIdle == n_in = <<>> /\ n_once = <<>> /\ n_twice = <<>> /\ n_pc = 0
RankIdle == r_target = <<>> /\ r_cands = <<>> /\ r_moea = Pending /\ r_g0v = Pending
BatchIdle ==
    /\ total = 0 /\ df_input = <<>> /\ i = 0 /\ pc = "idle"
    /\ raw_id = <<>> /\ raw_name = <<>> /\ tid = PyNone /\ method = <<>>
    /\ found = PyNone /\ c_data = PyNone /\ dirs = PyNone
    /\ smart_name = <<>> /\ core_name = <<>>
    /\ all_base = <<>> /\ all_dir = <<>> /\ calls = <<>> /\ stage = 0 /\ stages = <<>>

\* ------------------------------------------- the normalizer specification

Pieces ==
    { <<"tai">>, <<" ">>, <<"U+FF08">>, <<")">>,
      <<"gu", "fen4">>, <<"you", "xian", "gong", "si">>, <<"fen1", "gong", "si">>,
      <<"cai", "tuan", "fa", "ren">> }

RECURSIVE Joined(_)
Joined(n) ==
    IF n = 0 THEN {<<>>}
    ELSE Joined(n - 1) \cup {s \o p : s \in Joined(n - 1), p \in Pieces}

NormInputs == Joined(MaxParts)

NormInit ==
    /\ n_in \in NormInputs
    /\ n_once = <<>>
    /\ n_twice = <<>>
    /\ n_pc = 0
    /\ RankIdle
    /\ BatchIdle
    /\ DateIdle

NormalizeOnce ==
    /\ n_pc = 0
    /\ n_once' = clean_company_name(n_in)
    /\ n_pc' = 1
    /\ UNCHANGED <<n_in, n_twice, rvars, bvars, dvars>>

NormalizeTwice ==
    /\ n_pc = 1
    /\ n_twice' = clean_company_name(n_once)
    /\ n_pc' = 2
    /\ UNCHANGED <<n_in, n_once, rvars, bvars, dvars>>

NormNext == NormalizeOnce \/ NormalizeTwice

NormSpec == NormInit /\ [][NormNext]_vars

EndsWithSuffix(s) == \E n \in 1..Len(suffixes) : EndsWith(s, suffixes[n])

EndsWithSpace(s) == s # <<>> /\ s[Len(s)] \in Whitespace

\* C5 as stated: the normalizer is idempotent, normalize(normalize(x)) =
\* normalize(x) for every input x.
C5_Idempotent == n_pc = 2 => n_twice = n_once

\* C5 amended: a second application changes nothing exactly when the first
\* result ends neither with whitespace nor with a listed suffix; a name with
\* two stacked suffixes, or with whitespace before its suffix, is cut again.
C5_IdempotentUnlessStacked ==
    n_pc = 2 => ((n_twice = n_once) <=> (~EndsWithSuffix(n_once) /\ ~EndsWithSpace(n_once)))

\* C5 witness: an input that ends in a suffix has been normalized twice with
\* the same result both times.
C5_Witness ==
    /\ n_pc = 2
    /\ EndsWithSuffix(Strip(n_in))
    /\ n_once # n_in
    /\ n_twice = n_once

\* ---------------------------------------------- the ranking specification

RankTargets == { <<"tai", "ji">>, <<"dian">> }

\* <<identifier, name>>: two candidates named tai ji, two containing names of
\* equal length, a longer one, and names containing only one of the targets.
RankCandidates ==
    { <<"1", <<"tai", "ji">>>>,
      <<"2", <<"tai", "ji", "dian">>>>,
      <<"3", <<"kong", "tai", "ji">>>>,
      <<"4", <<"dian">>>>,
      <<"5", <<"tai", "ji", "dian", "zi">>>>,
      <<"6", <<"tai", "ji">>>> }

RECURSIVE SeqsUpTo(_, _)
SeqsUpTo(S, n) ==
    IF n = 0 THEN {<<>>}
    ELSE SeqsUpTo(S, n - 1) \cup {Append(q, x) : q \in SeqsUpTo(S, n - 1), x \in S}

\* The official registry's reply holding the candidates: a list of records.
MoeaReply(cands) ==
    HttpReply(200, PyList([n \in 1..Len(cands) |->
        PyDict([Business_Accounting_NO |-> PyStr(<<cands[n][1]>>),
                Company_Name |-> PyStr(cands[n][2])])]))

\* The community mirror's reply holding the candidates: {"data": [...]}.
G0vReply(cands) ==
    HttpReply(200, PyDict([data |-> PyList([n \in 1..Len(cands) |->
        PyDict([id |-> PyStr(<<cands[n][1]>>), name |-> PyStr(cands[n][2])])])]))

RankInit ==
    /\ r_target \in RankTargets
    /\ r_cands \in SeqsUpTo(RankCandidates, MaxCands)
    /\ r_moea = Pending
    /\ r_g0v = Pending
    /\ NormIdle
    /\ BatchIdle
    /\ DateIdle

RankByMoea ==
    /\ r_moea = Pending
    /\ r_moea' = search_moea_keyword(r_target, MoeaReply(r_cands))
    /\ UNCHANGED <<r_target, r_cands, r_g0v, nvars, bvars, dvars>>

RankByG0v ==
    /\ r_g0v = Pending
    /\ r_g0v' = search_g0v_fuzzy(r_target, G0vReply(r_cands))
    /\ UNCHANGED <<r_target, r_cands, r_moea, nvars, bvars, dvars>>

RankNext == RankByMoea \/ RankByG0v

RankSpec == RankInit /\ [][RankNext]_vars

CandId(n) == PyStr(<<r_cands[n][1]>>)
CandName(n) == r_cands[n][2]
IsExact(n) == CandName(n) = r_target
IsContaining(n) == Contains(CandName(n), r_target)

\* The ranking policy as a relation between the candidates and a result.
RankPolicy(result) ==
    LET idx == 1..Len(r_cands)
    IN IF \E n \in idx : IsExact(n)
       THEN \E n \in idx : IsExact(n) /\ result = CandId(n)
       ELSE IF \E n \in idx : IsContaining(n)
       THEN \E n \in idx :
                /\ IsContaining(n)
                /\ \A m \in idx : IsContaining(m) => Len(CandName(m)) >= Len(CandName(n))
                /\ \A m \in 1..(n - 1) : IsContaining(m) => Len(CandName(m)) > Len(CandName(n))
                /\ result = CandId(n)
       ELSE IF r_cands # <<>> THEN result = CandId(1)
       ELSE result = PyNone

\* C6: each adapter returns the identifier of an exactly named candidate if
\* there is one, else that of the shortest candidate containing the target
\* (the earliest of equally short ones), else the first candidate's, else
\* nothing; both adapters follow this one policy.
C6_RankPolicy ==
    /\ r_moea # Pending => RankPolicy(r_moea)
    /\ r_g0v # Pending => RankPolicy(r_g0v)

\* C6 witness: both adapters have ranked a list with no exact match in which
\* the shortest containing name occurs twice, behind a longer containing one.
C6_Witness ==
    /\ r_moea # Pending /\ r_g0v # Pending
    /\ Len(r_cands) = 3
    /\ \A n \in 1..3 : ~IsExact(n) /\ IsContaining(n)
    /\ Len(CandName(1)) > Len(CandName(2))
    /\ Len(CandName(2)) = Len(CandName(3))
    /\ CandId(2) # CandId(3)
    /\ r_moea = CandId(2) /\ r_g0v = CandId(2)

\* ------------------------------------------------------------ the replies

\* An identifier and the name the registries hold for it.
Id1 == <<"2", "2", "0", "9", "9", "1", "3", "1">>
RegName == <<"tai", "ji", "you", "xian", "gong", "si">>

\* Replies of the official registry's search: failures, empty and malformed
\* bodies, a candidate with its identifier as text, as a number and empty.
MoeaSearchReplies ==
    { NetError,
      HttpReply(500, BadJson),
      HttpReply(200, BadJson),
      HttpReply(200, PyList(<<>>)),
      HttpReply(200, PyDict([error |-> PyStr(<<"x">>)])),
      HttpReply(200, PyList(<<PyStr(RegName)>>)),
      HttpReply(200, PyList(<<PyDict([Business_Accounting_NO |-> PyStr(Id1)])>>)),
      HttpReply(200, PyList(<<PyDict([Business_Accounting_NO |-> PyStr(Id1),
                                      Company_Name |-> PyNone])>>)),
      HttpReply(200, PyList(<<PyDict([Business_Accounting_NO |-> PyStr(Id1),
                                      Company_Name |-> PyStr(RegName)])>>)),
      HttpReply(200, PyList(<<PyDict([Business_Accounting_NO |-> PyInt(22099131),
                                      Company_Name |-> PyStr(RegName)])>>)),
      HttpReply(200, PyList(<<PyDict([Business_Accounting_NO |-> PyStr(<<>>),
                                      Company_Name |-> PyStr(RegName)])>>)) }

\* Replies of the community mirror's search.
G0vSearchReplies ==
    { NetError,
      HttpReply(404, BadJson),
      HttpReply(200, BadJson),
      HttpReply(200, PyList(<<PyStr(<<"d", "a", "t", "a">>)>>)),
      HttpReply(200, PyDict([found |-> PyInt(0)])),
      HttpReply(200, PyDict([data |-> PyList(<<>>)])),
      HttpReply(200, PyDict([data |-> PyStr(RegName)])),
      HttpReply(200, PyDict([data |-> PyList(<<PyDict([id |-> PyStr(Id1)])>>)])),
      HttpReply(200, PyDict([data |-> PyList(<<PyDict([id |-> PyStr(Id1),
                                                       name |-> PyStr(RegName)])>>)])),
      HttpReply(200, PyDict([data |-> PyList(<<PyDict([id |-> PyStr(<<>>),
                                                       name |-> PyStr(RegName)])>>)])) }

Director == PyDict([name |-> PyStr(<<"wei">>), title |-> PyStr(<<"dong", "shi">>)])

Detail(name, date, directors) ==
    PyDict([company_name |-> name, setup_date |-> date, directors |-> directors])

Date2024 == PyDict([year |-> PyInt(2024), month |-> PyInt(3), day |-> PyInt(5)])

\* Replies of the community mirror's detail endpoint: failures, bodies
\* without a usable record, records with a director list that is a list of
\* mappings, is missing, is null, and is not a list of mappings.
G0vShowReplies ==
    { NetError,
      HttpReply(404, BadJson),
      HttpReply(200, BadJson),
      HttpReply(200, PyList(<<PyStr(<<"d", "a", "t", "a">>)>>)),
      HttpReply(200, PyDict([error |-> PyStr(<<"x">>)])),
      HttpReply(200, PyDict([data |-> PyNone])),
      HttpReply(200, PyDict([data |-> PyStr(RegName)])),
      HttpReply(200, PyDict([data |-> Detail(PyList(<<>>), Date2024, PyList(<<>>))])),
      HttpReply(200, PyDict([data |-> Detail(PyStr(RegName), Date2024, PyList(<<Director>>))])),
      HttpReply(200, PyDict([data |-> Detail(PyList(<<PyStr(RegName)>>), Date2024, PyNone)])),
      HttpReply(200, PyDict([data |-> PyDict([company_name |-> PyStr(RegName),
                                              setup_date |-> Date2024])])),
      HttpReply(200, PyDict([data |-> Detail(PyStr(RegName), Date2024,
                                             PyList(<<PyStr(<<"wei">>)>>))])),
      HttpReply(200, PyDict([data |-> Detail(PyStr(RegName), Date2024,
                                             PyList(<<Director, PyStr(<<"wei">>)>>))])),
      HttpReply(200, PyDict([data |-> Detail(PyStr(RegName), Date2024, PyStr(<<"wei">>))])) }

\* Replies of the official registry's detail endpoint.
MoeaDetailReplies ==
    { NetError,
      HttpReply(500, BadJson),
      HttpReply(200, BadJson),
      HttpReply(200, PyList(<<>>)),
      HttpReply(200, PyDict([error |-> PyStr(<<"x">>)])),
      HttpReply(200, PyList(<<PyStr(RegName)>>)),
      HttpReply(200, PyList(<<PyDict([Business_Accounting_NO |-> PyStr(Id1),
                                      Company_Name |-> PyStr(RegName)])>>)) }

\* --------------------------------------------------------- the batch loop

\* The cells of one sheet row: a str, or PyNone for an empty cell (NaN) and
\* for a column the user did not select.
Cell(id, name) == [id |-> id, name |-> name]

RowInputs ==
    { Cell(PyStr(Id1), PyNone),
      Cell(PyStr(<<" ">> \o Id1), PyStr(<<"tai", "ji", "you", "xian", "gong", "si">>)),
      Cell(PyStr(<<"2", "2", "0", "9", "9", "1", "3">>),
           PyStr(<<"tai", "ji", "you", "xian", "gong", " ", "si">>)),
      Cell(PyNone, PyStr(<<"tai", "ji">>)),
      Cell(PyNone, PyStr(<<"tai", "ji", "you", "xian", "gong", "si">>)),
      Cell(PyStr(<<"1", "2", "3", "4">>), PyNone),
      Cell(PyStr(<<"N", "a", "N">>), PyNone) }

\* c.lower(), for the letters of "nan"
Lower(s) == [n \in 1..Len(s) |->
    IF s[n] = "N" THEN "n" ELSE IF s[n] = "A" THEN "a" ELSE s[n]]

\* The text the loop reads from a cell: stripped, "" for an empty cell and
\* for the text nan.
ReadCell(cell) ==
    IF IsNone(cell) THEN <<>>
    ELSE IF Lower(Strip(cell.v)) = <<"n", "a", "n">> THEN <<>>
    ELSE Strip(cell.v)

\* A test for the wrong length.
IsDirectIdOffByOne(id) == IsDigit(id) /\ Len(id) = 9

\* raw_id.isdigit() and len(raw_id) == 8
IsDirectId(id) == IsDigit(id) /\ Len(id) = 8

\* The label of a row looked up by its identifier.
DirectLabel == <<"tong", "bian", "zhi", "cha">>

\* A label that leaves the name out.
NameLabelBare(name) == <<"ming", "cheng", "sou", "xun">>

\* The label of a row resolved by name: the fixed text, then the name in
\* parentheses.
NameLabel(name) == <<"ming", "cheng", "sou", "xun", "(">> \o name \o <<")">>

NoResponseName == <<"A", "P", "I", "wu", "hui", "ying">>
UnrecognizedName == <<"wu", "fa", "shi", "bie">>

\* An entry of calls: the operation, its argument, whether it gave a result
\* the caller accepts, and for a search that did, the identifier it gave.
Call(op, arg, hit, res) == [op |-> op, arg |-> arg, hit |-> hit, res |-> res]

\* A search as calls records it.
Searched(op, name, f) == Call(op, name, Truthy(f), IF Truthy(f) THEN f ELSE PyNone)

DetailKeys ==
    { "status", "company_name", "foreign_name", "capital_total", "paid_in_capital",
      "par_value", "issued_shares", "representative", "address", "registry",
      "setup_date", "last_change_date" }

\* The row written for a detail record.
FullRow ==
    [key \in DetailKeys \cup {"item_no", "tax_id", "query_source", "raw_input_id", "raw_input_name"} |->
        CASE key = "item_no" -> PyInt(i + 1)
          [] key = "tax_id" -> tid
          [] key = "query_source" -> PyStr(method)
          [] key = "raw_input_id" -> PyStr(raw_id)
          [] key = "raw_input_name" -> PyStr(raw_name)
          [] OTHER -> Get(c_data, key, PyStr(<<>>))]

\* A sentinel row that takes the sheet's text as its identifier.
NoResponseRowRawId ==
    [item_no |-> PyInt(i + 1), tax_id |-> PyStr(raw_id), company_name |-> PyStr(NoResponseName),
     query_source |-> PyStr(method), raw_input_name |-> PyStr(raw_name)]

\* The row written when the detail fetcher returned nothing.
NoResponseRow ==
    [item_no |-> PyInt(i + 1), tax_id |-> tid, company_name |-> PyStr(NoResponseName),
     query_source |-> PyStr(method), raw_input_name |-> PyStr(raw_name)]

\* The row written when there is no identifier.
UnrecognizedRow ==
    [item_no |-> PyInt(i + 1), tax_id |-> PyStr(raw_id),
     company_name |-> PyStr(UnrecognizedName), raw_input_name |-> PyStr(raw_name)]

\* d.update({owner_tax_id: tid, owner_name: c_data.get(company_name, "")})
Tagged(d) ==
    PyDict([key \in DOMAIN d.v \cup {"owner_tax_id", "owner_name"} |->
        CASE key = "owner_tax_id" -> tid
          [] key = "owner_name" -> Get(c_data, "company_name", PyStr(<<>>))
          [] OTHER -> d.v[key]])

\* The items of a list before its first item that is not a mapping.
RECURSIVE MappingPrefix(_)
MappingPrefix(l) ==
    IF l = <<>> \/ ~IsDict(Head(l)) THEN <<>>
    ELSE <<Head(l)>> \o MappingPrefix(Tail(l))

\* "for d in dirs: d.update(...)" runs through: dirs is a list of mappings.
DirsLoopOk(d) == IsList(d) /\ MappingPrefix(d.v) = d.v

BatchInit ==
    /\ total \in 0..MaxRows
    /\ df_input = <<>>
    /\ i = 0
    /\ pc = "for"
    /\ raw_id = <<>> /\ raw_name = <<>> /\ tid = PyNone /\ method = <<>>
    /\ found = PyNone /\ c_data = PyNone /\ dirs = PyNone
    /\ smart_name = <<>> /\ core_name = <<>>
    /\ all_base = <<>> /\ all_dir = <<>>
    /\ calls = <<>> /\ stage = 0 /\ stages = <<>>
    /\ NormIdle
    /\ RankIdle
    /\ DateIdle

Init == BatchInit

\* Lines 364-377: the next row is read and classified.  The locals of the
\* row before, all assigned again before they are read, restart empty.
ReadRow ==
    /\ pc = "for" /\ i < total
    /\ \E row \in RowInputs :
        /\ df_input' = Append(df_input, row)
        /\ raw_id' = ReadCell(row.id)
        /\ raw_name' = ReadCell(row.name)
    /\ IF IsDirectId(raw_id')
       THEN tid' = PyStr(raw_id') /\ method' = DirectLabel /\ pc' = "if_tid" /\ calls' = <<>>
       ELSE IF raw_name' # <<>>
       THEN /\ tid' = PyNone /\ method' = <<>> /\ pc' = "smart"
            /\ calls' = <<Call("sleep_row", <<>>, FALSE, PyNone)>>
       ELSE tid' = PyNone /\ method' = <<>> /\ pc' = "if_tid" /\ calls' = <<>>
    /\ found' = PyNone /\ c_data' = PyNone /\ dirs' = PyNone
    /\ smart_name' = <<>> /\ core_name' = <<>> /\ stage' = 0
    /\ UNCHANGED <<total, i, all_base, all_dir, stages, nvars, rvars, dvars>>

\* str(name).strip().replace(" ", "").replace(U+3000, ""): the name
\* search_id_smart searches with.
SearchedName(name) == Remove(Remove(Strip(name), " "), "U+3000")

\* Lines 143-145: search_id_smart is entered with the row's name.
SmartEnter ==
    /\ pc = "smart"
    /\ IF raw_name = <<>>
       THEN found' = PyNone /\ pc' = "returned" /\ UNCHANGED <<smart_name, core_name>>
       ELSE /\ smart_name' = SearchedName(raw_name)
            /\ core_name' = clean_company_name(smart_name')
            /\ pc' = "moea_raw"
            /\ UNCHANGED found
    /\ UNCHANGED <<total, df_input, i, raw_id, raw_name, tid, method, c_data, dirs,
                   all_base, all_dir, calls, stage, stages, nvars, rvars, dvars>>

\* What the four stages leave alone.
StageFrame ==
    UNCHANGED <<total, df_input, i, raw_id, raw_name, tid, method, c_data, dirs,
                smart_name, core_name, all_base, all_dir, stages, nvars, rvars, dvars>>

\* A first stage that goes on to the mirror although it found an identifier.
SmartMoeaRawGoesOn ==
    /\ pc = "moea_raw"
    /\ \E res \in MoeaSearchReplies :
        LET f == search_moea_keyword(smart_name, res)
        IN /\ calls' = Append(calls, Searched("moea_search", smart_name, f))
           /\ found' = f
           /\ pc' = "g0v_raw" /\ stage' = 0
    /\ StageFrame

\* Lines 146-147: the official registry is asked for the raw name.
SmartMoeaRaw ==
    /\ pc = "moea_raw"
    /\ \E res \in MoeaSearchReplies :
        LET f == search_moea_keyword(smart_name, res)
        IN /\ calls' = Append(calls, Searched("moea_search", smart_name, f))
           /\ found' = f
           /\ IF Truthy(f) THEN pc' = "returned" /\ stage' = 1
              ELSE pc' = "g0v_raw" /\ stage' = 0
    /\ StageFrame

\* A pipeline that retries with the core name whatever it is.
RetryAlways == TRUE

\* if core_name != raw_name
RetryWanted == core_name # smart_name

\* Lines 148-151 and 156: the mirror is asked for the raw name; when that
\* fails too, either the retry with the core name starts or None is returned.
SmartG0vRaw ==
    /\ pc = "g0v_raw"
    /\ \E res \in G0vSearchReplies :
        LET f == search_g0v_fuzzy(smart_name, res)
            asked == Append(calls, Searched("g0v_search", smart_name, f))
        IN IF Truthy(f)
           THEN found' = f /\ pc' = "returned" /\ stage' = 2 /\ calls' = asked
           ELSE IF RetryWanted
           THEN /\ found' = f /\ pc' = "moea_core" /\ stage' = 0
                /\ calls' = Append(asked, Call("sleep_retry", <<>>, FALSE, PyNone))
           ELSE found' = PyNone /\ pc' = "returned" /\ stage' = 0 /\ calls' = asked
    /\ StageFrame

\* Lines 152-153: the official registry is asked for the core name.
SmartMoeaCore ==
    /\ pc = "moea_core"
    /\ \E res \in MoeaSearchReplies :
        LET f == search_moea_keyword(core_name, res)
        IN /\ calls' = Append(calls, Searched("moea_search", core_name, f))
           /\ found' = f
           /\ IF Truthy(f) THEN pc' = "returned" /\ stage' = 3
              ELSE pc' = "g0v_core" /\ stage' = 0
    /\ StageFrame

\* Lines 154-156: the mirror is asked for the core name; None is returned
\* when that fails too.
SmartG0vCore ==
    /\ pc = "g0v_core"
    /\ \E res \in G0vSearchReplies :
        LET f == search_g0v_fuzzy(core_name, res)
        IN /\ calls' = Append(calls, Searched("g0v_search", core_name, f))
           /\ IF Truthy(f) THEN found' = f /\ stage' = 4
              ELSE found' = PyNone /\ stage' = 0
           /\ pc' = "returned"
    /\ StageFrame

\* Line 379: the batch takes what search_id_smart returned.
AfterSmart ==
    /\ pc = "returned"
    /\ IF Truthy(found)
       THEN tid' = found /\ method' = NameLabel(raw_name)
       ELSE UNCHANGED <<tid, method>>
    /\ pc' = "if_tid"
    /\ UNCHANGED <<total, df_input, i, raw_id, raw_name, found, c_data, dirs,
                   smart_name, core_name, all_base, all_dir, calls, stage, stages,
                   nvars, rvars, dvars>>

\* Lines 381-382: with an identifier the detail fetcher is called.
StartFetch ==
    /\ pc = "if_tid" /\ Truthy(tid)
    /\ calls' = Append(calls, Call("sleep_fetch", <<>>, FALSE, PyNone))
    /\ pc' = "fetch_g0v"
    /\ UNCHANGED <<total, df_input, i, row_locals, all_base, all_dir, stage, stages,
                   nvars, rvars, dvars>>

\* Lines 381, 409-410: without an identifier the row is written as
\* unrecognized.
EmitUnrecognized ==
    /\ pc = "if_tid" /\ ~Truthy(tid)
    /\ all_base' = Append(all_base, UnrecognizedRow)
    /\ stages' = Append(stages, stage)
    /\ i' = i + 1
    /\ pc' = "for"
    /\ UNCHANGED <<total, df_input, row_locals, all_dir, calls, stage, nvars, rvars, dvars>>

\* A detail fetcher that asks the official registry after every mirror
\* attempt, a success included.
FetchG0vThenMoea ==
    /\ pc = "fetch_g0v"
    /\ \E res \in G0vShowReplies :
        LET out == FetchFromG0v(res)
        IN /\ calls' = Append(calls, Call("g0v_show", tid.v, out.r = "ret", PyNone))
           /\ IF out.r = "ret"
              THEN c_data' = out.v[1] /\ dirs' = out.v[2]
              ELSE UNCHANGED <<c_data, dirs>>
    /\ pc' = "fetch_moea"
    /\ UNCHANGED <<total, df_input, i, raw_id, raw_name, tid, method, found,
                   smart_name, core_name, all_base, all_dir, stage, stages, nvars, rvars, dvars>>

\* Lines 159-172: the mirror's detail endpoint is asked.
FetchG0v ==
    /\ pc = "fetch_g0v"
    /\ \E res \in G0vShowReplies :
        LET out == FetchFromG0v(res)
        IN /\ calls' = Append(calls, Call("g0v_show", tid.v, out.r = "ret", PyNone))
           /\ IF out.r = "ret"
              THEN c_data' = out.v[1] /\ dirs' = out.v[2] /\ pc' = "fetched"
              ELSE UNCHANGED <<c_data, dirs>> /\ pc' = "fetch_moea"
    /\ UNCHANGED <<total, df_input, i, raw_id, raw_name, tid, method, found,
                   smart_name, core_name, all_base, all_dir, stage, stages, nvars, rvars, dvars>>

\* Lines 173-190: the official registry's detail endpoint is asked.
FetchMoea ==
    /\ pc = "fetch_moea"
    /\ \E res \in MoeaDetailReplies :
        LET out == FetchFromMoea(res)
        IN /\ calls' = Append(calls, Call("moea_detail", tid.v, out # NoDetail, PyNone))
           /\ c_data' = out[1] /\ dirs' = out[2]
    /\ pc' = "fetched"
    /\ UNCHANGED <<total, df_input, i, raw_id, raw_name, tid, method, found,
                   smart_name, core_name, all_base, all_dir, stage, stages, nvars, rvars, dvars>>

\* Lines 384-406: the row of a detail record is written and the directors
\* are tagged; d.update raises, out of the loop, on the first director that
\* is not a mapping, and iterating raises on a value that is not iterable.
EmitFull ==
    /\ pc = "fetched" /\ Truthy(c_data)
    /\ all_base' = Append(all_base, FullRow)
    /\ stages' = Append(stages, stage)
    /\ IF ~Truthy(dirs)
       THEN UNCHANGED all_dir /\ i' = i + 1 /\ pc' = "for"
       ELSE IF DirsLoopOk(dirs)
       THEN /\ all_dir' = all_dir \o [n \in 1..Len(dirs.v) |-> Tagged(dirs.v[n])]
            /\ i' = i + 1 /\ pc' = "for"
       ELSE /\ all_dir' = IF IsList(dirs)
                          THEN all_dir \o [n \in 1..Len(MappingPrefix(dirs.v)) |-> Tagged(dirs.v[n])]
                          ELSE all_dir
            /\ UNCHANGED i /\ pc' = "raised"
    /\ UNCHANGED <<total, df_input, row_locals, calls, stage, nvars, rvars, dvars>>

\* Lines 407-408: the detail fetcher returned nothing.
EmitNoResponse ==
    /\ pc = "fetched" /\ ~Truthy(c_data)
    /\ all_base' = Append(all_base, NoResponseRow)
    /\ stages' = Append(stages, stage)
    /\ i' = i + 1
    /\ pc' = "for"
    /\ UNCHANGED <<total, df_input, row_locals, all_dir, calls, stage, nvars, rvars, dvars>>

\* Lines 412-417: the loop is over and the report is offered.
Finish ==
    /\ pc = "for" /\ i = total
    /\ pc' = "done"
    /\ UNCHANGED <<total, df_input, i, row_locals, all_base, all_dir, calls, stage,
                   stages, nvars, rvars, dvars>>

Next ==
    \/ ReadRow
    \/ SmartEnter
    \/ SmartMoeaRaw
    \/ SmartG0vRaw
    \/ SmartMoeaCore
    \/ SmartG0vCore
    \/ AfterSmart
    \/ StartFetch
    \/ EmitUnrecognized
    \/ FetchG0v
    \/ FetchMoea
    \/ EmitFull
    \/ EmitNoResponse
    \/ Finish

Spec == Init /\ [][Next]_vars

\* ----------------------------------------------------- the batch's claims

SearchOps == {"moea_search", "g0v_search"}
FetchOps == {"g0v_show", "moea_detail"}

IsSearch(c) == c.op \in SearchOps
IsFetch(c) == c.op \in FetchOps

\* The searches made for the row in work, in the order they were made.
Searches == SelectSeq(calls, IsSearch)

\* The detail requests made for the row in work.
Fetches == SelectSeq(calls, IsFetch)

\* A row is in work or was the last one finished.
RowSeen == df_input # <<>>

\* The batch has stopped: the loop is over, or an exception left it.
Stopped == pc \in {"done", "raised"}

EightDigits(s) == Len(s) = 8 /\ \A n \in 1..Len(s) : s[n] \in Digits

\* The name the k-th sheet row gives.
InputName(k) == ReadCell(df_input[k].name)
InputId(k) == ReadCell(df_input[k].id)

\* C1: the batch ends with exactly one output row per input row, the k-th
\* output row numbered k and holding the k-th input row's name.
C1_OneRowPerInput ==
    Stopped =>
        /\ Len(all_base) = total
        /\ \A k \in 1..Len(all_base) :
            /\ all_base[k]["item_no"] = PyInt(k)
            /\ all_base[k]["raw_input_name"] = PyStr(InputName(k))

\* C2: no upstream reply, whatever its shape, makes an exception leave the
\* adapters, the detail fetcher, the pipeline or the batch loop.
C2_NoExceptionSurfaces == pc # "raised"

\* The four stages of a pipeline call, in order.
StagePlan ==
    << <<"moea_search", smart_name>>, <<"g0v_search", smart_name>>,
       <<"moea_search", core_name>>, <<"g0v_search", core_name>> >>

\* C3: the searches of one pipeline call are a start of the plan official
\* registry on the raw name, mirror on the raw name, official registry on the
\* core name, mirror on the core name; only the last search made may have
\* succeeded; and the call returns what that search gave, or nothing.
C3_StageOrder ==
    /\ Len(Searches) <= 4
    /\ \A n \in 1..Len(Searches) :
        /\ Searches[n].op = StagePlan[n][1]
        /\ Searches[n].arg = StagePlan[n][2]
        /\ n < Len(Searches) => ~Searches[n].hit
    /\ pc = "returned" =>
        found = IF Searches # <<>> /\ Searches[Len(Searches)].hit
                THEN Searches[Len(Searches)].res
                ELSE PyNone

\* C3 witness: a call has returned the identifier its fourth stage found.
C3_Witness ==
    /\ pc = "returned"
    /\ Len(Searches) = 4
    /\ Searches[4].hit
    /\ found = PyStr(Id1)
    /\ core_name # smart_name

NoRetry ==
    /\ Len(Searches) <= 2
    /\ \A n \in 1..Len(calls) : calls[n].op # "sleep_retry"
    /\ (pc = "returned" /\ \A n \in 1..Len(Searches) : ~Searches[n].hit) => found = PyNone

\* C4 as stated: for a name that the normalizer leaves unchanged the
\* pipeline makes at most the two raw-name searches and inserts no delay.
C4_NoRetryForFixedPoint ==
    (RowSeen /\ clean_company_name(raw_name) = raw_name) => NoRetry

\* C4 amended: the same, for every name whose searched form (trimmed, spaces
\* and ideographic spaces removed) is left unchanged by the normalizer.
C4_NoRetryForSearchedName ==
    (RowSeen /\ clean_company_name(SearchedName(raw_name)) = SearchedName(raw_name))
        => NoRetry

\* C4 witness: for a name without a suffix both raw-name searches have
\* failed and the call has returned nothing.
C4_Witness ==
    /\ pc = "returned"
    /\ raw_name = <<"tai", "ji">>
    /\ Len(Searches) = 2
    /\ found = PyNone

\* C7: a row whose identifier is 8 digits is never searched for by name; it
\* gets the direct label and the detail fetcher is asked for that identifier.
C7_DirectBypass ==
    (RowSeen /\ EightDigits(raw_id)) =>
        /\ Searches = <<>>
        /\ \A n \in 1..Len(calls) : calls[n].op \in FetchOps \cup {"sleep_fetch"}
        /\ pc \notin {"smart", "moea_raw", "g0v_raw", "moea_core", "g0v_core", "returned"}
        /\ tid = PyStr(raw_id)
        /\ method = DirectLabel
        /\ \A n \in 1..Len(Fetches) : Fetches[n].arg = raw_id
        /\ pc \in {"for", "done", "raised"} => Fetches # <<>>

\* C7 witness: a row with an 8-digit identifier and a name has been written
\* as "no API response" after both detail requests failed.
C7_Witness ==
    /\ pc = "for" /\ all_base # <<>>
    /\ EightDigits(raw_id) /\ raw_name # <<>>
    /\ Len(Fetches) = 2
    /\ all_base[Len(all_base)]["company_name"] = PyStr(NoResponseName)

ByName(k) == stages[k] \in 1..4

\* The text of a label is the name-search text followed by the name in
\* parentheses.
IsNameLabelOf(l, name) ==
    /\ Len(l) = Len(name) + 6
    /\ SubSeq(l, 1, 5) = <<"ming", "cheng", "sou", "xun", "(">>
    /\ SubSeq(l, 6, Len(l) - 1) = name
    /\ l[Len(l)] = ")"

C9_RawInputsKept ==
    \A k \in 1..Len(all_base) :
        /\ "raw_input_id" \in DOMAIN all_base[k]
        /\ "raw_input_name" \in DOMAIN all_base[k]
        /\ all_base[k]["raw_input_id"] = PyStr(InputId(k))
        /\ all_base[k]["raw_input_name"] = PyStr(InputName(k))

\* The identifier the row in work has obtained, from the sheet or from the
\* search that succeeded; PyNone if neither.
Obtained ==
    IF EightDigits(raw_id) THEN PyStr(raw_id)
    ELSE IF Searches # <<>> /\ Searches[Len(Searches)].hit
    THEN Searches[Len(Searches)].res
    ELSE PyNone

HasObtainedLabel(l) ==
    IF EightDigits(raw_id) THEN l = DirectLabel ELSE IsNameLabelOf(l, raw_name)

\* A detail request for the row in work gave a record.
DetailGiven == \E n \in 1..Len(Fetches) : Fetches[n].hit

LastRow == all_base[Len(all_base)]

\* The last output row is the row of the input row the locals belong to.
RowWritten == all_base # <<>> /\ pc \in {"for", "done", "raised"}

\* C10: with an identifier and no detail the row is the "no API response"
\* sentinel with that identifier and its label; without an identifier it is
\* the "unrecognized" sentinel and no detail request was made; with a detail
\* record its identifier field is the obtained identifier.
C10_SentinelRows ==
    RowWritten =>
        /\ (~IsNone(Obtained) /\ ~DetailGiven) =>
            /\ Fetches # <<>>
            /\ LastRow["company_name"] = PyStr(NoResponseName)
            /\ LastRow["tax_id"] = Obtained
            /\ HasObtainedLabel(LastRow["query_source"].v)
        /\ IsNone(Obtained) =>
            /\ Fetches = <<>>
            /\ LastRow["company_name"] = PyStr(UnrecognizedName)
        /\ DetailGiven =>
            /\ LastRow["tax_id"] = Obtained
            /\ LastRow["company_name"] = Get(c_data, "company_name", PyStr(<<>>))

\* C10 witness: a row resolved by name whose sheet identifier is other text
\* has been written as "no API response" with the resolved identifier.
C10_Witness ==
    /\ RowWritten
    /\ raw_id # <<>> /\ ~EightDigits(raw_id)
    /\ ~DetailGiven
    /\ LastRow["company_name"] = PyStr(NoResponseName)
    /\ LastRow["tax_id"] = PyStr(Id1)

\* ------------------------------------------------- the date specification

\* A component the mapping does not have.
Absent == [k |-> "absent"]

YearParts ==
    { Absent, PyNone, PyInt(0), PyInt(1911), PyInt(1912), PyInt(2024),
      PyStr(<<"2", "0", "2", "4">>), PyStr(<<"x">>) }
MonthParts == { Absent, PyNone, PyInt(3), PyInt(12), PyStr(<<"x">>) }
DayParts == { Absent, PyInt(5), PyInt(31) }

\* The mapping with the components that are not Absent.
DateDict(y, m, d) ==
    LET part == [year |-> y, month |-> m, day |-> d]
    IN PyDict([key \in {c \in {"year", "month", "day"} : part[c] # Absent} |-> part[key]])

\* The values a date column of the mirror's record may hold: mappings with
\* or without each component, and values that are not mappings.
DateInputs ==
    {DateDict(y, m, d) : y \in YearParts, m \in MonthParts, d \in DayParts}
    \cup { PyNone,
           PyStr(<<"2", "0", "2", "4", "-", "0", "3", "-", "0", "5">>),
           PyInt(20240305),
           PyList(<<>>),
           PyList(<<PyInt(2024), PyInt(3), PyInt(5)>>) }

DateInit ==
    /\ d_in \in DateInputs
    /\ d_out = <<>>
    /\ d_pc = 0
    /\ NormIdle
    /\ RankIdle
    /\ BatchIdle

\* Lines 167-169: the value of a date column is converted.
ConvertDate ==
    /\ d_pc = 0
    /\ d_out' = format_date_roc(d_in)
    /\ d_pc' = 1
    /\ UNCHANGED <<d_in, nvars, rvars, bvars>>

DateNext == ConvertDate

DateSpec == DateInit /\ [][DateNext]_vars

\* A component is a number: an int, or text of digits.
Numeric(x) == IsInt(x) \/ (IsStr(x) /\ x.v # <<>> /\ \A n \in 1..Len(x.v) : x.v[n] \in Digits)

\* The value is a structured date: a mapping with a numeric year, month, day.
Structured(x) ==
    /\ IsDict(x)
    /\ \A c \in {"year", "month", "day"} : c \in DOMAIN x.v /\ Numeric(x.v[c])

\* The era text of year y, month m, day d (an era year below 1000).
EraText(y, m, d) ==
    LET e == IF y > 1911 THEN y - 1911 ELSE y
    IN << DigitChar(e \div 100), DigitChar((e \div 10) % 10), DigitChar(e % 10), "nian",
          DigitChar(m \div 10), DigitChar(m % 10), "yue",
          DigitChar(d \div 10), DigitChar(d % 10), "ri" >>

\* C11: a structured date converts to the era text, year - 1911 when the year
\* is above 1911, month and day two digits wide; every other value (a mapping
\* lacking a component or with one that is no number, null, a value that is
\* no mapping) converts to the empty string.
C11_DateConversion ==
    d_pc = 1 =>
        IF Structured(d_in)
        THEN d_out = EraText(IntOf(d_in.v["year"]), IntOf(d_in.v["month"]), IntOf(d_in.v["day"]))
        ELSE d_out = <<>>

\* ------------------------------------------------- the detail fetcher's order

\* The endpoints asked in the detail fetcher call of the row, in order.
FetchOrder == [n \in 1..Len(Fetches) |-> Fetches[n].op]

\* C12: in one detail fetcher call the community mirror's detail endpoint is
\* asked first; the official registry's detail endpoint is asked only after
\* a mirror attempt that returned nothing, never after a mirror success; a
\* result of the official path has an empty director list, and when both
\* attempts return nothing the result is (None, None).
C12_MirrorFirst ==
    /\ FetchOrder \in {<<>>, <<"g0v_show">>, <<"g0v_show", "moea_detail">>}
    /\ Len(Fetches) = 2 => ~Fetches[1].hit
    /\ pc = "fetch_moea" => (Len(Fetches) = 1 /\ ~Fetches[1].hit)
    /\ pc = "fetched" =>
        /\ Fetches # <<>>
        /\ Len(Fetches) = 1 => (Fetches[1].hit /\ IsDict(c_data))
        /\ Len(Fetches) = 2 =>
            \/ Fetches[2].hit /\ IsDict(c_data) /\ dirs = PyList(<<>>)
            \/ ~Fetches[2].hit /\ c_data = PyNone /\ dirs = PyNone

\* C12 witness: the mirror returned nothing, the official registry was asked
\* next and its record came back with an empty director list.
C12_Witness ==
    /\ pc = "fetched"
    /\ FetchOrder = <<"g0v_show", "moea_detail">>
    /\ ~Fetches[1].hit /\ Fetches[2].hit
    /\ IsDict(c_data) /\ dirs = PyList(<<>>)

\* ------------------------------------------------- no empty identifier

\* A str that is not empty.
NonEmptyStr(x) == IsStr(x) /\ x.v # <<>>

\* The pipeline is inside a stage after the first.
InLaterStage == pc \in {"g0v_raw", "moea_core", "g0v_core"}

\* C13: the resolution pipeline never returns an empty identifier: a stage
\* whose ranking picked the identifier "" counts as failed and the pipeline
\* goes on to the next stage (or returns None after the last), so the detail
\* fetcher is only called with a non-empty identifier and every row with a
\* strategy label has a non-empty identifier.
C13_NoEmptyIdentifier ==
    /\ pc = "returned" => (IsNone(found) \/ NonEmptyStr(found))
    /\ (IsStr(found) /\ found.v = <<>>) => InLaterStage
    /\ pc \in {"fetch_g0v", "fetch_moea", "fetched"} => NonEmptyStr(tid)
    /\ \A n \in 1..Len(Fetches) : Fetches[n].arg # <<>>
    /\ \A n \in 1..Len(all_base) :
        "query_source" \in DOMAIN all_base[n] => NonEmptyStr(all_base[n]["tax_id"])

\* C13 witness: the first stage picked the identifier "", nothing was
\* returned and the pipeline stands at its second stage.
C13_Witness ==
    /\ pc = "g0v_raw"
    /\ IsStr(found) /\ found.v = <<>>
    /\ Len(Searches) = 1 /\ Searches[1].op = "moea_search" /\ ~Searches[1].hit

====
